---- MODULE Spec2Model ----
(***************************************************************************)
(* Model of the laptop price dashboard (src/app.py): the cached loader     *)
(* load_data, the sidebar widgets, the filter filter_data, the aggregation *)
(* get_cheapest_platforms and the render cycle main.                       *)
(*                                                                         *)
(* A DataFrame is a record [columns, rows]: the set of column names and    *)
(* the sequence of rows.  A row carries its pandas index label (Index),    *)
(* which boolean indexing and copying preserve.  Prices are fixed-point    *)
(* numbers, PriceScale units to the rupee, so that a CSV price can have a  *)
(* fractional part while the slider values are whole rupees.               *)
(***************************************************************************)
EXTENDS Integers, Sequences, FiniteSets, TLC

VARIABLES
    source,         \* the CSV file on disk: [readable, columns, rows]
    cache,          \* the st.cache_data entry of load_data
    rng,            \* numpy's global random state
    reads,          \* number of pd.read_csv calls so far
    derives,        \* number of runs of the seeded derivation so far
    loadLog,        \* the values load_data returned, one per call
    cycle,          \* number of script runs started
    pc,             \* position of the current script run in main
    df,             \* main's df (the value load_data returned)
    city, brands, price_range, platforms, ram_sizes, storage_sizes,
                    \* the six values create_sidebar_filters returns
    filtered_df,    \* main's filtered_df
    refiltered_df,  \* filter_data applied to filtered_df (SpecFilter only)
    cheapest,       \* the value get_cheapest_platforms returned
    rendered,       \* the elements this script run has put on the page
    aggLog          \* the aggregations this script run made: [fn, rows]

vars == <<source, cache, rng, reads, derives, loadLog, cycle, pc, df,
          city, brands, price_range, platforms, ram_sizes, storage_sizes,
          filtered_df, refiltered_df, cheapest, rendered, aggLog>>

loaderVars == <<source, cache, rng, reads, derives, loadLog>>
widgetVars == <<city, brands, price_range, platforms, ram_sizes, storage_sizes>>

-----------------------------------------------------------------------------
(* Bounds of the model *)

MaxRows == 2
NumPriceLevels == 2
MaxChanged == 2
MaxAggRows == 4
MaxCycles == 3
PriceScale == 2

-----------------------------------------------------------------------------
(* Values *)

\* Python's None, where a DataFrame is expected
None == [none |-> TRUE]

AllColumns ==
    {"Brand", "Price", "RAM_Size", "Storage_Capacity",
     "Processor_Speed", "Screen_Size", "Weight"}

DerivedColumns == {"Platform", "City", "Rating"}

\* the slider's step, in rupees
step == 1000

Rupees(n) == n * PriceScale

\* int(x) of a non-negative price: truncation to whole rupees
int(x) == x \div PriceScale

SeqToSet(s) == {s[i] : i \in 1..Len(s)}

\* Series.unique(): the distinct values (order is not used by the model)
unique(d, c) == {d.rows[i][c] : i \in 1..Len(d.rows)}

-----------------------------------------------------------------------------
(* filter_data *)

\* df[mask]: the rows whose mask entry is TRUE, in their order, each with
\* its index label
RECURSIVE BoolIndex(_, _)
BoolIndex(rows, mask) ==
    IF rows = <<>> THEN <<>>
    ELSE IF Head(mask)
         THEN <<Head(rows)>> \o BoolIndex(Tail(rows), Tail(mask))
         ELSE BoolIndex(Tail(rows), Tail(mask))

\* truth value of a Python list: empty is falsy
Truthy(list) == list # {}

\* Series.isin(values)
isin(rows, c, values) == [i \in 1..Len(rows) |-> rows[i][c] \in values]

CityMask(rows, c) == [i \in 1..Len(rows) |-> rows[i].City = c]

\* the price mask with an exclusive upper end
PriceMask_exclusive(rows, pr) ==
    [i \in 1..Len(rows) |->
        /\ rows[i].Price >= Rupees(pr[1])
        /\ rows[i].Price < Rupees(pr[2])]

PriceMask(rows, pr) ==
    [i \in 1..Len(rows) |->
        /\ rows[i].Price >= Rupees(pr[1])
        /\ rows[i].Price <= Rupees(pr[2])]

\* filter_data with the storage filter reading the RAM_Size column
filter_data_storage_on_ram(d, c, b, pr, pl, rs, ss) ==
    LET f0 == d.rows
        f1 == IF c # "All" THEN BoolIndex(f0, CityMask(f0, c)) ELSE f0
        f2 == IF Truthy(b) THEN BoolIndex(f1, isin(f1, "Brand", b)) ELSE f1
        f3 == BoolIndex(f2, PriceMask(f2, pr))
        f4 == IF Truthy(pl) THEN BoolIndex(f3, isin(f3, "Platform", pl)) ELSE f3
        f5 == IF Truthy(rs) THEN BoolIndex(f4, isin(f4, "RAM_Size", rs)) ELSE f4
        f6 == IF Truthy(ss) THEN BoolIndex(f5, isin(f5, "RAM_Size", ss)) ELSE f5
    IN  [columns |-> d.columns, rows |-> f6]

\* filter_data with the price mask taken from the unfiltered table and
\* applied by position to the table the city and brand filters left
filter_data_stale_mask(d, c, b, pr, pl, rs, ss) ==
    LET f0 == d.rows
        f1 == IF c # "All" THEN BoolIndex(f0, CityMask(f0, c)) ELSE f0
        f2 == IF Truthy(b) THEN BoolIndex(f1, isin(f1, "Brand", b)) ELSE f1
        f3 == BoolIndex(f2, PriceMask(f0, pr))
        f4 == IF Truthy(pl) THEN BoolIndex(f3, isin(f3, "Platform", pl)) ELSE f3
        f5 == IF Truthy(rs) THEN BoolIndex(f4, isin(f4, "RAM_Size", rs)) ELSE f4
        f6 == IF Truthy(ss) THEN BoolIndex(f5, isin(f5, "Storage_Capacity", ss)) ELSE f5
    IN  [columns |-> d.columns, rows |-> f6]

filter_data(d, c, b, pr, pl, rs, ss) ==
    LET f0 == d.rows
        f1 == IF c # "All" THEN BoolIndex(f0, CityMask(f0, c)) ELSE f0
        f2 == IF Truthy(b) THEN BoolIndex(f1, isin(f1, "Brand", b)) ELSE f1
        f3 == BoolIndex(f2, PriceMask(f2, pr))
        f4 == IF Truthy(pl) THEN BoolIndex(f3, isin(f3, "Platform", pl)) ELSE f3
        f5 == IF Truthy(rs) THEN BoolIndex(f4, isin(f4, "RAM_Size", rs)) ELSE f4
        f6 == IF Truthy(ss) THEN BoolIndex(f5, isin(f5, "Storage_Capacity", ss)) ELSE f5
    IN  [columns |-> d.columns, rows |-> f6]

\* a filter that drops the rejected rows from its argument in place
InputAfterFilter_inplace(d, c, b, pr, pl, rs, ss) ==
    filter_data(d, c, b, pr, pl, rs, ss)

\* the caller's table after filter_data(d, ...) returned: filter_data works
\* on d.copy() and boolean indexing builds new frames, so d is as it was
InputAfterFilter(d, c, b, pr, pl, rs, ss) == d

\* a RangeIndex 0..n-1 on the rows
WithRangeIndex(rows) ==
    [i \in 1..Len(rows) |-> [rows[i] EXCEPT !.Index = i - 1]]

-----------------------------------------------------------------------------
(* load_data *)

platformNames ==
    <<"Amazon", "Flipkart", "Reliance Digital", "Croma", "Vijay Sales">>

cityNames ==
    <<"Bhopal", "Mumbai", "Delhi", "Bangalore", "Chennai", "Kolkata", "Pune",
      "Hyderabad">>

\* np.random.seed(42)
SeedValue == 42

\* numpy's generator, abstracted to a linear congruential generator: what
\* matters is that the draws are a function of the state alone
RngMul == 5
RngInc == 9
RngMod == 97

NextRandom(x) == (x * RngMul + RngInc) % RngMod

RECURSIVE RandomStream(_, _)
RandomStream(x, k) ==
    IF k = 0 THEN <<>>
    ELSE <<NextRandom(x)>> \o RandomStream(NextRandom(x), k - 1)

\* the three np.random calls on a table of n rows, from generator state x:
\* n platform choices, then n city choices, then n ratings in [3.0, 5.0]
\* rounded to one decimal (in tenths)
WithDerivedColumns(rows, x) ==
    LET n == Len(rows)
        r == RandomStream(x, 3 * n)
    IN  [i \in 1..n |->
            [rows[i] EXCEPT
                !.Platform = platformNames[(r[i] % Len(platformNames)) + 1],
                !.City = cityNames[(r[n + i] % Len(cityNames)) + 1],
                !.Rating = 30 + (r[2 * n + i] % 21)]]

StateAfterDraws(rows, x) ==
    LET r == RandomStream(x, 3 * Len(rows))
    IN  IF r = <<>> THEN x ELSE r[Len(r)]

\* the generator state the derivation starts from: np.random.seed(42) resets
\* the global generator whatever state g it was in
SeededState(g) == SeedValue

\* the body of load_data on a readable file
ReadAndDerive(src, g) ==
    [columns |-> src.columns \cup DerivedColumns,
     rows |-> WithDerivedColumns(WithRangeIndex(src.rows), SeededState(g))]

\* load_data without the cache decorator: every call runs the body
CacheHit_never(c) == FALSE

\* @st.cache_data on a function without parameters: once an entry exists
\* every call is answered from it
CacheHit(c) == c.set

-----------------------------------------------------------------------------
(* get_cheapest_platforms *)

\* the platform names in ascending order, the order in which groupby (which
\* sorts its group keys) lists the groups
SortedPlatforms ==
    <<"Amazon", "Croma", "Flipkart", "Reliance Digital", "Vijay Sales">>

RECURSIVE SumPrice(_)
SumPrice(rows) ==
    IF rows = <<>> THEN 0 ELSE Head(rows).Price + SumPrice(Tail(rows))

\* the mean of Price over rows, as the fraction num / den (rows is not empty)
MeanPrice(rows) == [num |-> SumPrice(rows), den |-> Len(rows)]

MeanLess(m, n) == m.num * n.den < n.num * m.den

\* df.groupby('Platform')['Price'].mean(): one entry per platform of the
\* table, in sorted key order
GroupbyPlatformMean(d) ==
    LET present(p) == p \in unique(d, "Platform")
        keys == SelectSeq(SortedPlatforms, present)
    IN  [k \in 1..Len(keys) |->
            [Platform |-> keys[k],
             mean |-> MeanPrice(BoolIndex(d.rows,
                                          isin(d.rows, "Platform", {keys[k]})))]]

Ascending(series) ==
    \A i, j \in 1..Len(series) :
        i < j => ~MeanLess(series[j].mean, series[i].mean)

\* sort_values(ascending=False)
sort_values_descending(series) ==
    LET n == Len(series)
        perms == {f \in [1..n -> 1..n] : \A i, j \in 1..n : i # j => f[i] # f[j]}
    IN  {s \in {[k \in 1..n |-> series[f[n + 1 - k]]] : f \in perms} :
            Ascending([k \in 1..n |-> s[n + 1 - k]])}

\* sort_values() with the default kind, which is not a stable sort: any
\* ascending arrangement of the entries, equal means in any order
sort_values(series) ==
    LET n == Len(series)
        perms == {f \in [1..n -> 1..n] : \A i, j \in 1..n : i # j => f[i] # f[j]}
    IN  {s \in {[k \in 1..n |-> series[f[k]]] : f \in perms} : Ascending(s)}

\* Series.head(n)
head(series, n) ==
    SubSeq(series, 1, IF Len(series) < n THEN Len(series) ELSE n)

\* the values get_cheapest_platforms(d) can return
get_cheapest_platforms(d) ==
    {head(s, 2) : s \in sort_values(GroupbyPlatformMean(d))}

-----------------------------------------------------------------------------
(* Inputs of the filter checks: tables of listings and filter values *)

FCities == {"Bhopal", "Mumbai"}
FBrands == {"Dell", "HP"}
FPlatforms == {"Amazon", "Flipkart"}
FRam == {8, 16}
FStorage == {256, 512}

\* slider positions, in rupees
PriceLevels == {k * step : k \in 1..NumPriceLevels}

BaseListing ==
    [Index |-> 0, Brand |-> "Dell", Price |-> Rupees(step), RAM_Size |-> 8,
     Storage_Capacity |-> 256, Platform |-> "Amazon", City |-> "Bhopal",
     Rating |-> 40]

\* the listings that differ from BaseListing in at most one column; the
\* prices are the slider positions and the values one unit above the first
\* and above the second position
Listings ==
    {[BaseListing EXCEPT !.City = c] : c \in FCities}
    \cup {[BaseListing EXCEPT !.Brand = b] : b \in FBrands}
    \cup {[BaseListing EXCEPT !.Price = Rupees(l)] : l \in PriceLevels}
    \cup {[BaseListing EXCEPT !.Price = Rupees(step) + 1],
          [BaseListing EXCEPT !.Price = Rupees(2 * step) + 1]}
    \cup {[BaseListing EXCEPT !.Platform = p] : p \in FPlatforms}
    \cup {[BaseListing EXCEPT !.RAM_Size = r] : r \in FRam}
    \cup {[BaseListing EXCEPT !.Storage_Capacity = s] : s \in FStorage}

Frame(rows) ==
    [columns |-> AllColumns \cup DerivedColumns, rows |-> WithRangeIndex(rows)]

Tables ==
    {Frame(rows) : rows \in UNION {[1..n -> Listings] : n \in 0..MaxRows}}

\* the slider returns a pair low <= high
PriceRanges == {pr \in PriceLevels \X PriceLevels : pr[1] <= pr[2]}

FullRange == <<step, NumPriceLevels * step>>

\* how many of the six widgets are off their widest setting
Changed(c, b, pr, pl, rs, ss) ==
    (IF c # "All" THEN 1 ELSE 0) + (IF b # FBrands THEN 1 ELSE 0)
    + (IF pr # FullRange THEN 1 ELSE 0) + (IF pl # FPlatforms THEN 1 ELSE 0)
    + (IF rs # FRam THEN 1 ELSE 0) + (IF ss # FStorage THEN 1 ELSE 0)

-----------------------------------------------------------------------------
(* SpecFilter: filter_data called once on a table with six filter values *)

FilterSpecs ==
    {s \in [city : {"All"} \cup FCities, brands : SUBSET FBrands,
            price_range : PriceRanges, platforms : SUBSET FPlatforms,
            ram_sizes : SUBSET FRam, storage_sizes : SUBSET FStorage] :
        Changed(s.city, s.brands, s.price_range, s.platforms,
                s.ram_sizes, s.storage_sizes) <= MaxChanged}

idle ==
    /\ source = None /\ cache = None /\ rng = 0 /\ reads = 0 /\ derives = 0
    /\ loadLog = <<>> /\ cycle = 0 /\ cheapest = <<>> /\ rendered = {}
    /\ aggLog = {}

InitFilter ==
    /\ idle
    /\ pc = "filter"
    /\ df \in Tables
    /\ city = "All" /\ brands = FBrands /\ price_range = FullRange
    /\ platforms = FPlatforms /\ ram_sizes = FRam /\ storage_sizes = FStorage
    /\ filtered_df = None /\ refiltered_df = None

\* filter_data(df, ...) with the six values, then again on its own result
FilterCall ==
    /\ pc = "filter"
    /\ \E s \in FilterSpecs :
        /\ city' = s.city /\ brands' = s.brands
        /\ price_range' = s.price_range /\ platforms' = s.platforms
        /\ ram_sizes' = s.ram_sizes /\ storage_sizes' = s.storage_sizes
        /\ filtered_df' = filter_data(df, s.city, s.brands, s.price_range,
                                      s.platforms, s.ram_sizes, s.storage_sizes)
        /\ refiltered_df' = filter_data(filtered_df', s.city, s.brands,
                                        s.price_range, s.platforms,
                                        s.ram_sizes, s.storage_sizes)
        /\ df' = InputAfterFilter(df, s.city, s.brands, s.price_range,
                                  s.platforms, s.ram_sizes, s.storage_sizes)
    /\ pc' = "filtered"
    /\ UNCHANGED <<loaderVars, cycle, cheapest, rendered, aggLog>>

NextFilter == FilterCall

SpecFilter == InitFilter /\ [][NextFilter]_vars

-----------------------------------------------------------------------------
(* Claims about filter_data, checked under SpecFilter *)

called == pc = "filtered"

\* the positions of df whose row satisfies every predicate of the six
\* values, an empty selected set being satisfied by no row
Satisfying ==
    {i \in 1..Len(df.rows) :
        LET r == df.rows[i] IN
        /\ city = "All" \/ r.City = city
        /\ r.Brand \in brands
        /\ Rupees(price_range[1]) <= r.Price
        /\ r.Price <= Rupees(price_range[2])
        /\ r.Platform \in platforms
        /\ r.RAM_Size \in ram_sizes
        /\ r.Storage_Capacity \in storage_sizes}

\* rows is exactly the rows of df at the positions keep, in df's order
IsSelection(rows, keep) ==
    /\ Len(rows) = Cardinality(keep)
    /\ \A k \in 1..Len(rows) :
        \E i \in keep :
            /\ Cardinality({j \in keep : j < i}) = k - 1
            /\ rows[k] = df.rows[i]

NoEmptySet ==
    /\ brands # {} /\ platforms # {} /\ ram_sizes # {} /\ storage_sizes # {}

\* C1: with the four selected sets non-empty, filter_data returns exactly
\* the rows that satisfy the conjunction of the six predicates, each once,
\* in the order of the input table.
C1_FilterIsConjunction ==
    (called /\ NoEmptySet) => IsSelection(filtered_df.rows, Satisfying)

\* a two-row table of which the filter keeps the second row only, with two
\* predicates narrowed
C1_Witness ==
    /\ called /\ NoEmptySet
    /\ Len(df.rows) = 2
    /\ Satisfying = {2}
    /\ city # "All" /\ storage_sizes # FStorage

\* C2: an empty selected set yields an empty result.
C2_EmptySetEmptyResult ==
    (called /\ ~NoEmptySet) => filtered_df.rows = <<>>

CurrentSpec ==
    [city |-> city, brands |-> brands, price_range |-> price_range,
     platforms |-> platforms, ram_sizes |-> ram_sizes,
     storage_sizes |-> storage_sizes]

\* the filter values that narrow exactly one predicate of s
Narrowings(s) ==
    {[s EXCEPT !.city = c] : c \in IF s.city = "All" THEN FCities ELSE {}}
    \cup {[s EXCEPT !.brands = b] : b \in (SUBSET s.brands) \ {s.brands}}
    \cup {[s EXCEPT !.price_range = pr] :
            pr \in {q \in PriceRanges :
                      /\ s.price_range[1] <= q[1] /\ q[2] <= s.price_range[2]
                      /\ q # s.price_range}}
    \cup {[s EXCEPT !.platforms = x] : x \in (SUBSET s.platforms) \ {s.platforms}}
    \cup {[s EXCEPT !.ram_sizes = x] : x \in (SUBSET s.ram_sizes) \ {s.ram_sizes}}
    \cup {[s EXCEPT !.storage_sizes = x] :
            x \in (SUBSET s.storage_sizes) \ {s.storage_sizes}}

RowCount(s) ==
    Len(filter_data(df, s.city, s.brands, s.price_range, s.platforms,
                    s.ram_sizes, s.storage_sizes).rows)

\* C3: narrowing one predicate (a sub-interval, a subset including the
\* empty one, a city instead of All) never increases the row count.
C3_Monotone ==
    called => \A n \in Narrowings(CurrentSpec) :
                  RowCount(n) <= Len(filtered_df.rows)

\* the other predicates, as filter_data applies them: an empty selected
\* set is not applied
OthersHold(r) ==
    /\ city = "All" \/ r.City = city
    /\ brands = {} \/ r.Brand \in brands
    /\ platforms = {} \/ r.Platform \in platforms
    /\ ram_sizes = {} \/ r.RAM_Size \in ram_sizes
    /\ storage_sizes = {} \/ r.Storage_Capacity \in storage_sizes

\* C5: a row priced exactly at low or at high that passes the other
\* predicates is in the result; no row priced below low or above high is.
C5_PriceInclusive ==
    called =>
        /\ \A i \in 1..Len(df.rows) :
            LET r == df.rows[i] IN
            (/\ r.Price \in {Rupees(price_range[1]), Rupees(price_range[2])}
             /\ OthersHold(r))
            => r \in SeqToSet(filtered_df.rows)
        /\ \A k \in 1..Len(filtered_df.rows) :
            /\ filtered_df.rows[k].Price >= Rupees(price_range[1])
            /\ filtered_df.rows[k].Price <= Rupees(price_range[2])

\* a narrowed interval; one row priced at its upper end is kept and one
\* row priced just above it is dropped
C5_Witness ==
    /\ called
    /\ price_range # FullRange
    /\ \E i \in 1..Len(df.rows) :
        /\ df.rows[i].Price = Rupees(price_range[2])
        /\ df.rows[i] \in SeqToSet(filtered_df.rows)
    /\ \E i \in 1..Len(df.rows) :
        /\ df.rows[i].Price = Rupees(price_range[2]) + 1
        /\ df.rows[i] \notin SeqToSet(filtered_df.rows)

\* C6: filtering the result again with the same values returns the same
\* rows in the same order.
C6_Idempotent ==
    called => refiltered_df = filtered_df

\* a result that kept some rows and dropped others, under values with an
\* empty selected set and a chosen city
C6_Witness ==
    /\ called
    /\ ~NoEmptySet /\ city # "All"
    /\ Len(filtered_df.rows) >= 1
    /\ Len(filtered_df.rows) < Len(df.rows)
    /\ refiltered_df = filtered_df

-----------------------------------------------------------------------------
(* SpecAgg: get_cheapest_platforms called once on a table *)

APlatforms == {"Flipkart", "Amazon", "Croma"}

\* listings on three platforms, priced at the slider positions and halfway
\* between the first two
AggListings ==
    {[BaseListing EXCEPT !.Platform = p, !.Price = x] :
        p \in APlatforms,
        x \in {Rupees(l) : l \in PriceLevels} \cup {Rupees(step) + Rupees(step) \div 2}}

AggTables ==
    {Frame(rows) : rows \in UNION {[1..n -> AggListings] : n \in 0..MaxAggRows}}

InitAgg ==
    /\ idle
    /\ pc = "aggregate"
    /\ df \in AggTables
    /\ city = "All" /\ brands = FBrands /\ price_range = FullRange
    /\ platforms = FPlatforms /\ ram_sizes = FRam /\ storage_sizes = FStorage
    /\ filtered_df = None /\ refiltered_df = None

CheapestCall ==
    /\ pc = "aggregate"
    /\ cheapest' \in get_cheapest_platforms(df)
    /\ pc' = "aggregated"
    /\ UNCHANGED <<loaderVars, widgetVars, cycle, df, filtered_df,
                   refiltered_df, rendered, aggLog>>

NextAgg == CheapestCall

SpecAgg == InitAgg /\ [][NextAgg]_vars

-----------------------------------------------------------------------------
(* Claims about get_cheapest_platforms, checked under SpecAgg *)

aggregated == pc = "aggregated"

PlatformRows(p) ==
    {i \in 1..Len(df.rows) : df.rows[i].Platform = p}

RECURSIVE SumAt(_)
SumAt(idx) ==
    IF idx = {} THEN 0
    ELSE LET i == CHOOSE x \in idx : TRUE
         IN  df.rows[i].Price + SumAt(idx \ {i})

\* m is the mean of Price over the rows of platform p
IsMeanOf(m, p) ==
    /\ PlatformRows(p) # {}
    /\ m.num * Cardinality(PlatformRows(p)) = SumAt(PlatformRows(p)) * m.den

FirstAppearance(p) ==
    CHOOSE i \in PlatformRows(p) : \A j \in PlatformRows(p) : i <= j

PlatformsOf(series) == {series[k].Platform : k \in 1..Len(series)}

CheapestBasics ==
    LET groups == unique(df, "Platform")
        n == Cardinality(groups)
    IN  /\ Len(cheapest) = IF n < 2 THEN n ELSE 2
        /\ PlatformsOf(cheapest) \subseteq groups
        /\ Cardinality(PlatformsOf(cheapest)) = Len(cheapest)
        /\ \A k \in 1..Len(cheapest) :
            IsMeanOf(cheapest[k].mean, cheapest[k].Platform)
        /\ Ascending(cheapest)

\* C4 as stated: the two cheapest platforms ascending by mean price, each
\* mean over that platform's rows, equal means in first-appearance order.
C4_CheapestFirstAppearance ==
    aggregated =>
        /\ CheapestBasics
        /\ \A k, l \in 1..Len(cheapest) :
            (/\ k < l
             /\ ~MeanLess(cheapest[k].mean, cheapest[l].mean))
            => FirstAppearance(cheapest[k].Platform)
                 < FirstAppearance(cheapest[l].Platform)

\* C4 amended: min(2, platforms) entries ascending by mean price, each mean
\* over exactly that platform's rows, no platform left out being cheaper
\* than one returned; the order of equal means is not constrained.
C4_CheapestAscending ==
    aggregated =>
        /\ CheapestBasics
        /\ \A p \in unique(df, "Platform") \ PlatformsOf(cheapest) :
            \A k \in 1..Len(cheapest) :
                cheapest[k].mean.num * Cardinality(PlatformRows(p))
                    <= SumAt(PlatformRows(p)) * cheapest[k].mean.den

\* three platforms with different means, the cheapest of them appearing
\* last in the table and averaged over two rows
C4_Witness ==
    /\ aggregated
    /\ Cardinality(unique(df, "Platform")) = 3
    /\ Len(cheapest) = 2
    /\ MeanLess(cheapest[1].mean, cheapest[2].mean)
    /\ cheapest[1].mean.den = 2
    /\ FirstAppearance(cheapest[1].Platform) > 2

-----------------------------------------------------------------------------
(* The CSV files the dashboard can find on disk *)

CsvListings ==
    {[BaseListing EXCEPT !.Platform = "", !.City = "", !.Rating = 0],
     [BaseListing EXCEPT !.Platform = "", !.City = "", !.Rating = 0,
        !.Brand = "HP", !.Price = Rupees(2 * step) + 1, !.RAM_Size = 16,
        !.Storage_Capacity = 512]}

CsvTables == UNION {[1..n -> CsvListings] : n \in 0..MaxRows}

\* the file cannot be read: it is missing or is no CSV
Unreadable == [readable |-> FALSE, columns |-> {}, rows |-> <<>>]

\* the schema, or the schema with one column missing
ColumnSets ==
    {AllColumns}
    \cup {AllColumns \ {c} :
            c \in {"Brand", "Price", "RAM_Size", "Storage_Capacity",
                   "Processor_Speed"}}

Sources ==
    {Unreadable}
    \cup [readable : {TRUE}, columns : ColumnSets, rows : CsvTables]

-----------------------------------------------------------------------------
(* create_sidebar_filters *)

Unset == "<unset>"

MinPrice(d) ==
    CHOOSE x \in unique(d, "Price") : \A y \in unique(d, "Price") : x <= y

MaxPrice(d) ==
    CHOOSE x \in unique(d, "Price") : \A y \in unique(d, "Price") : x >= y

\* the distinct values of a column in order of first appearance
RECURSIVE UniqueSeq(_, _)
UniqueSeq(rows, c) ==
    IF rows = <<>> THEN <<>>
    ELSE LET rest == UniqueSeq(SubSeq(rows, 1, Len(rows) - 1), c)
             v == rows[Len(rows)][c]
         IN  IF v \in SeqToSet(rest) THEN rest ELSE Append(rest, v)

\* the options of the city selectbox
CityOptions(d) == {"All"} \cup unique(d, "City")

\* the values the price slider can return: pairs low <= high of positions
\* between min_value and max_value, step apart from min_value, and max_value
SliderRanges(d) ==
    LET lo == int(MinPrice(d))
        hi == int(MaxPrice(d))
        positions == {x \in lo..hi : (x - lo) % step = 0} \cup {hi}
    IN  {pr \in positions \X positions : pr[1] <= pr[2]}

\* the widgets' values on the first run of a session
DefaultCity(d) == IF "Bhopal" \in unique(d, "City") THEN "Bhopal" ELSE "All"
DefaultBrands(d) == SeqToSet(head(UniqueSeq(d.rows, "Brand"), 3))
DefaultPriceRange(d) == <<int(MinPrice(d)), int(MaxPrice(d))>>

\* the sidebar elements create_sidebar_filters(d) puts on the page before it
\* returns or raises: the header and the city selectbox, then one widget
\* after the other until a column it reads is missing (KeyError) or, for
\* the slider, the table has no row (int(nan) raises ValueError)
SidebarElements(d) ==
    {"sidebar_header", "city_select"}
    \cup (IF "Brand" \notin d.columns THEN {}
          ELSE {"brand_multiselect"}
          \cup (IF "Price" \notin d.columns \/ d.rows = <<>> THEN {}
                ELSE {"price_slider", "platform_multiselect"}
                \cup (IF "RAM_Size" \notin d.columns THEN {}
                      ELSE {"ram_multiselect"}
                      \cup (IF "Storage_Capacity" \notin d.columns THEN {}
                            ELSE {"storage_multiselect"}))))

SidebarRaises(d) == "storage_multiselect" \notin SidebarElements(d)

-----------------------------------------------------------------------------
(* main: one script run, and the reruns a session makes *)

\* a check that tests for None instead of for an empty frame
empty_is_none(d) == d = None

\* DataFrame.empty
empty(d) == d.rows = <<>>

NewRun ==
    /\ pc' = "start"
    /\ df' = None /\ filtered_df' = None
    /\ cheapest' = <<>> /\ rendered' = {} /\ aggLog' = {}

Init ==
    /\ source \in Sources
    /\ cache = [set |-> FALSE, value |-> None]
    /\ rng \in {0, SeedValue}
    /\ reads = 0 /\ derives = 0 /\ loadLog = <<>>
    /\ cycle = 1 /\ pc = "start"
    /\ df = None /\ filtered_df = None /\ refiltered_df = None
    /\ city = Unset /\ brands = {} /\ price_range = <<0, 0>>
    /\ platforms = {} /\ ram_sizes = {} /\ storage_sizes = {}
    /\ cheapest = <<>> /\ rendered = {} /\ aggLog = {}

\* main, lines 272-280: the header, load_data() and the check of its result
LoadData ==
    /\ pc = "start"
    /\ LET hit == CacheHit(cache)
           ok == source.readable
           result == IF hit THEN cache.value
                     ELSE IF ok THEN ReadAndDerive(source, rng)
                     ELSE None
       IN  /\ cache' = [set |-> TRUE, value |-> result]
           /\ reads' = IF hit THEN reads ELSE reads + 1
           /\ derives' = IF hit \/ ~ok THEN derives ELSE derives + 1
           /\ rng' = IF hit \/ ~ok THEN rng
                     ELSE StateAfterDraws(source.rows, SeededState(rng))
           /\ loadLog' = Append(loadLog, result)
           /\ df' = result
           /\ IF result = None
              THEN /\ rendered' = {"header", "error_loading_data",
                                   "error_failed_to_load"}
                   /\ pc' = "done"
              ELSE /\ rendered' = {"header"}
                   /\ pc' = "sidebar"
    /\ UNCHANGED <<source, cycle, widgetVars, filtered_df, refiltered_df,
                   cheapest, aggLog>>

\* create_sidebar_filters(df): on the first run of the session the widgets
\* take their defaults, later they keep the values the user gave them; an
\* exception ends the script run with what was rendered so far
CreateSidebarFilters ==
    /\ pc = "sidebar"
    /\ IF SidebarRaises(df)
       THEN /\ rendered' = rendered \cup SidebarElements(df) \cup {"exception"}
            /\ pc' = "done"
            /\ UNCHANGED widgetVars
       ELSE /\ rendered' = rendered \cup SidebarElements(df)
            /\ pc' = "filter"
            /\ IF city = Unset
               THEN /\ city' = DefaultCity(df)
                    /\ brands' = DefaultBrands(df)
                    /\ price_range' = DefaultPriceRange(df)
                    /\ platforms' = unique(df, "Platform")
                    /\ ram_sizes' = unique(df, "RAM_Size")
                    /\ storage_sizes' = unique(df, "Storage_Capacity")
               ELSE UNCHANGED widgetVars
    /\ UNCHANGED <<loaderVars, cycle, df, filtered_df, refiltered_df,
                   cheapest, aggLog>>

\* main, line 286
FilterData ==
    /\ pc = "filter"
    /\ filtered_df' = filter_data(df, city, brands, price_range, platforms,
                                  ram_sizes, storage_sizes)
    /\ df' = InputAfterFilter(df, city, brands, price_range, platforms,
                              ram_sizes, storage_sizes)
    /\ pc' = "check"
    /\ UNCHANGED <<loaderVars, cycle, widgetVars, refiltered_df, cheapest,
                   rendered, aggLog>>

\* main, lines 288-290
EmptyCheck ==
    /\ pc = "check"
    /\ IF empty(filtered_df)
       THEN /\ rendered' = rendered \cup {"no_data_warning"}
            /\ pc' = "done"
       ELSE /\ pc' = "metrics"
            /\ UNCHANGED rendered
    /\ UNCHANGED <<loaderVars, cycle, widgetVars, df, filtered_df,
                   refiltered_df, cheapest, aggLog>>

Aggregation(fn) == [fn |-> fn, rows |-> Len(filtered_df.rows)]

\* main, lines 292-305: the four metrics
RenderMetrics ==
    /\ pc = "metrics"
    /\ aggLog' = aggLog \cup {Aggregation("Price.mean"), Aggregation("Price.min"),
                              Aggregation("Price.max"), Aggregation("Brand.nunique")}
    /\ rendered' = rendered \cup {"metrics"}
    /\ pc' = "deals"
    /\ UNCHANGED <<loaderVars, cycle, widgetVars, df, filtered_df,
                   refiltered_df, cheapest>>

\* main, lines 307-316: the two cheapest platforms
BestDeals ==
    /\ pc = "deals"
    /\ cheapest' \in get_cheapest_platforms(filtered_df)
    /\ aggLog' = aggLog \cup {Aggregation("get_cheapest_platforms")}
    /\ rendered' = rendered \cup {"best_deals_header"}
                   \cup (IF Len(cheapest') >= 2 THEN {"best_deals"} ELSE {})
    /\ pc' = "charts"
    /\ UNCHANGED <<loaderVars, cycle, widgetVars, df, filtered_df,
                   refiltered_df>>

\* main, lines 318-345: four charts, then the specifications chart, which
\* raises KeyError when the Processor_Speed column is missing
RenderCharts ==
    /\ pc = "charts"
    /\ aggLog' = aggLog \cup {Aggregation("groupby.Platform"),
                              Aggregation("Platform.value_counts"),
                              Aggregation("groupby.RAM_Size"),
                              Aggregation("groupby.Storage_Capacity")}
    /\ IF "Processor_Speed" \in filtered_df.columns
       THEN /\ rendered' = rendered \cup {"dashboard_header", "chart_platform",
                                "chart_brand", "chart_share", "chart_rating",
                                "chart_specs"}
            /\ pc' = "table"
       ELSE /\ rendered' = rendered \cup {"dashboard_header", "chart_platform",
                                "chart_brand", "chart_share", "chart_rating",
                                "exception"}
            /\ pc' = "done"
    /\ UNCHANGED <<loaderVars, cycle, widgetVars, df, filtered_df,
                   refiltered_df, cheapest>>

\* main, lines 347-393: the table (sort_values returns a new frame) and the
\* footer
RenderTable ==
    /\ pc = "table"
    /\ rendered' = rendered \cup {"table_header", "sort_selects", "data_table",
                                  "footer"}
    /\ pc' = "done"
    /\ UNCHANGED <<loaderVars, cycle, widgetVars, df, filtered_df,
                   refiltered_df, cheapest, aggLog>>

CanRerun == pc = "done" /\ cycle < MaxCycles

\* the widgets exist once a run has come past create_sidebar_filters
HasWidgets == CanRerun /\ city # Unset /\ df # None

\* the user asks for a rerun without touching a filter widget
Rerun ==
    /\ CanRerun
    /\ cycle' = cycle + 1
    /\ NewRun
    /\ UNCHANGED <<loaderVars, widgetVars, refiltered_df>>

\* the user changes one widget, which reruns the script
ChangeCity ==
    /\ HasWidgets
    /\ city' \in CityOptions(df) \ {city}
    /\ cycle' = cycle + 1
    /\ NewRun
    /\ UNCHANGED <<loaderVars, brands, price_range, platforms, ram_sizes,
                   storage_sizes, refiltered_df>>

ChangeBrands ==
    /\ HasWidgets
    /\ brands' \in (SUBSET unique(df, "Brand")) \ {brands}
    /\ cycle' = cycle + 1
    /\ NewRun
    /\ UNCHANGED <<loaderVars, city, price_range, platforms, ram_sizes,
                   storage_sizes, refiltered_df>>

ChangePriceRange ==
    /\ HasWidgets
    /\ price_range' \in SliderRanges(df) \ {price_range}
    /\ cycle' = cycle + 1
    /\ NewRun
    /\ UNCHANGED <<loaderVars, city, brands, platforms, ram_sizes,
                   storage_sizes, refiltered_df>>

ChangePlatforms ==
    /\ HasWidgets
    /\ platforms' \in (SUBSET unique(df, "Platform")) \ {platforms}
    /\ cycle' = cycle + 1
    /\ NewRun
    /\ UNCHANGED <<loaderVars, city, brands, price_range, ram_sizes,
                   storage_sizes, refiltered_df>>

ChangeRamSizes ==
    /\ HasWidgets
    /\ ram_sizes' \in (SUBSET unique(df, "RAM_Size")) \ {ram_sizes}
    /\ cycle' = cycle + 1
    /\ NewRun
    /\ UNCHANGED <<loaderVars, city, brands, price_range, platforms,
                   storage_sizes, refiltered_df>>

ChangeStorageSizes ==
    /\ HasWidgets
    /\ storage_sizes' \in (SUBSET unique(df, "Storage_Capacity")) \ {storage_sizes}
    /\ cycle' = cycle + 1
    /\ NewRun
    /\ UNCHANGED <<loaderVars, city, brands, price_range, platforms,
                   ram_sizes, refiltered_df>>

\* between two script runs the file on disk is removed or rewritten
ChangeSource ==
    /\ pc = "done"
    /\ source' \in {Unreadable}
                   \cup {x \in Sources : x.columns = AllColumns /\ Len(x.rows) = 1}
    /\ source' # source
    /\ UNCHANGED <<cache, rng, reads, derives, loadLog, cycle, pc, df,
                   widgetVars, filtered_df, refiltered_df, cheapest, rendered,
                   aggLog>>

Next ==
    \/ LoadData
    \/ CreateSidebarFilters
    \/ FilterData
    \/ EmptyCheck
    \/ RenderMetrics
    \/ BestDeals
    \/ RenderCharts
    \/ RenderTable
    \/ Rerun
    \/ ChangeCity
    \/ ChangeBrands
    \/ ChangePriceRange
    \/ ChangePlatforms
    \/ ChangeRamSizes
    \/ ChangeStorageSizes
    \/ ChangeSource

Spec == Init /\ [][Next]_vars

-----------------------------------------------------------------------------
(* Claims about the render cycle, checked under Spec *)

SidebarWidgets ==
    {"sidebar_header", "city_select", "brand_multiselect", "price_slider",
     "platform_multiselect", "ram_multiselect", "storage_multiselect"}

ContentElements ==
    {"metrics", "best_deals_header", "best_deals", "dashboard_header",
     "chart_platform", "chart_brand", "chart_share", "chart_rating",
     "chart_specs", "table_header", "sort_selects", "data_table", "footer"}

\* this script run has filtered, found no row and acted on it
EmptyResultRun ==
    /\ filtered_df # None
    /\ filtered_df.rows = <<>>
    /\ pc # "check"

\* C7: a run whose filter result has no row ends with the warning and with
\* no aggregation, metric, chart or table; so every aggregation of any run
\* is made on at least one row.
C7_EmptyResultSkipsAggregation ==
    /\ EmptyResultRun =>
        /\ pc = "done"
        /\ "no_data_warning" \in rendered
        /\ rendered \cap ContentElements = {}
        /\ aggLog = {}
        /\ cheapest = <<>>
    /\ \A a \in aggLog : a.rows >= 1

\* a later run of a session ends early on an empty result of a table that
\* has rows
C7_Witness ==
    /\ EmptyResultRun
    /\ pc = "done"
    /\ df.rows # <<>>
    /\ cycle >= 2
    /\ "no_data_warning" \in rendered

\* load_data has run in this script run and the data is unusable: the file
\* was unreadable, or one of the columns named is missing
LoadFailed ==
    /\ pc # "start"
    /\ \/ df = None
       \/ ~({"Brand", "Price", "RAM_Size", "Storage_Capacity"} \subseteq df.columns)

\* C8: when the file is unreadable or lacks a required column, the run
\* shows an error and stops with no sidebar filter, metric, chart or table,
\* and neither filter_data nor an aggregation is called.
C8_LoadFailureStopsRun ==
    LoadFailed =>
        /\ rendered \cap (SidebarWidgets \cup ContentElements) = {}
        /\ filtered_df = None
        /\ aggLog = {}
        /\ pc = "done" => "error_failed_to_load" \in rendered

AnyTableLoaded == \E i \in 1..Len(loadLog) : loadLog[i] # None

\* C9: the file is read and the three columns are derived once, on the
\* first load_data call; every later call returns the same table.
C9_LoadedOnce ==
    /\ reads <= 1
    /\ derives <= 1
    /\ loadLog # <<>> => reads = 1
    /\ AnyTableLoaded => derives = 1
    /\ \A i \in 1..Len(loadLog) : loadLog[i] = loadLog[1]
    /\ cache.set => cache.value = loadLog[1]

\* a table with rows was loaded, the file was then removed, and a later
\* load_data call still returned the table
C9_Witness ==
    /\ Len(loadLog) >= 3
    /\ loadLog[1] # None
    /\ loadLog[1].rows # <<>>
    /\ ~source.readable
    /\ reads = 1

\* C10: the table load_data returned is never changed: after filter_data,
\* and through every later step and run, main's df and the cached table are
\* the table as it was loaded.
C10_BaseTableUnchanged ==
    /\ (df # None /\ loadLog # <<>>) => df = loadLog[Len(loadLog)]
    /\ (filtered_df # None /\ loadLog # <<>>) => df = loadLog[1]
    /\ (cache.set /\ loadLog # <<>>) => cache.value = loadLog[1]

\* a later run ended early on an empty result of a two-row table, and the
\* table is still whole
C10_Witness ==
    /\ cycle >= 2
    /\ pc = "done"
    /\ filtered_df # None
    /\ filtered_df.rows = <<>>
    /\ Len(df.rows) = 2
    /\ df = cache.value

====
